---- MODULE Spec2Model ----
(***************************************************************************)
(* Model of final_ver.py: the PhonePe statement converter.                 *)
(*                                                                         *)
(* The script is one linear pipeline: normalise the extracted text, scan   *)
(* it with one regular expression, tabulate and sort the matches, render   *)
(* them grouped by date, and export the result four times.                 *)
(*                                                                         *)
(* The text is modelled at lexeme granularity: a sequence of tokens, two   *)
(* consecutive tokens being separated by one space.  Amount lexemes are    *)
(* kept as character sequences, so that the amount alternative of the      *)
(* pattern, float() and the ",.2f" format are computed character by        *)
(* character.  Amounts are counted in paise (1/100 rupee), which is exact  *)
(* for every two-decimal amount; -0.0 and 0.0 are both 0, as they are for  *)
(* every comparison the script makes (x > 0, abs(x)).                      *)
(***************************************************************************)
EXTENDS Integers, Sequences, FiniteSets, TLC

VARIABLES
    pdf,           \* the statement at pdf_path, as the segments it is made of
    text,          \* line 12/16: the extracted (then normalised) text
    pc,            \* the last step of the script that completed
    err,           \* the step at which an exception ended the run, or "none"
    transactions,  \* line 25: the list of (date, name, amount, ttype) tuples
    matches,       \* line 26: the match objects finditer has yielded
    df,            \* line 39: the DataFrame, a sequence of rows
    output_lines,  \* line 47
    stdout,        \* what print() has written, in order
    attempted,     \* the exporters started so far, in order
    files          \* the output files that were completely written

vars == <<pdf, text, pc, err, transactions, matches, df, output_lines, stdout,
          attempted, files>>

---------------------------------------------------------------------------
(* Bounds of the model. *)

\* The number of segments (blocks, stray dates, ...) a statement is made of.
MaxBlocks == 2

---------------------------------------------------------------------------
(* Tokens.  k is the kind of lexeme; a, n, y, s carry its text:             *)
(*   date   "<a> <n as two digits>, <y>"     e.g. Jan 30, 2024              *)
(*   time   "06:16 PM"                                                      *)
(*   paid   "Paid to"          recv  "Received from"                        *)
(*   word   a run of letters <a>, or (s not empty) of letters and digits    *)
(*   gap    additional white space (spaces or a newline)                    *)
(*   punct  a character outside the name class, e.g. "("                    *)
(*   tid    "Transaction ID"                                                *)
(*   debit  "Debit"   credit "Credit"   inr "INR"                           *)
(*   amt    the characters <s>, drawn from digits, "," and "."              *)

Tok(kind) == [k |-> kind, a |-> "", n |-> 0, y |-> 0, s |-> <<>>]
DateTok(mon, day, year) == [k |-> "date", a |-> mon, n |-> day, y |-> year, s |-> <<>>]
WordTok(w) == [k |-> "word", a |-> w, n |-> 0, y |-> 0, s |-> <<>>]
\* A transaction identifier such as T1: letters, then the digit 1.
CodeTok(w) == [k |-> "word", a |-> w, n |-> 0, y |-> 0, s |-> <<"a", "1">>]
AmtTok(chars) == [k |-> "amt", a |-> "", n |-> 0, y |-> 0, s |-> chars]

DigitChars == <<"0", "1", "2", "3", "4", "5", "6", "7", "8", "9">>
IsDigit(c) == \E i \in 1..Len(DigitChars) : DigitChars[i] = c
DigitVal(c) == (CHOOSE i \in 1..Len(DigitChars) : DigitChars[i] = c) - 1

\* The two digits of a day or an hour, as \d{2} sees them.
TwoDigits(n) == <<DigitChars[(n \div 10) + 1], DigitChars[(n % 10) + 1]>>

RECURSIVE Concat(_)
Concat(ss) == IF ss = <<>> THEN <<>> ELSE Head(ss) \o Concat(Tail(ss))

---------------------------------------------------------------------------
(* Line 16: re.sub(r"\b\d{1,2}:\d{2}\s*(?:AM|PM)\b", "", text).            *)
(* A time lexeme is the only one holding "digits:digits AM|PM".            *)

IsTimeOfDay(t) == t.k = "time"

NormalizeKeepingTimes(txt) == txt

Normalize(txt) == SelectSeq(txt, LAMBDA t : ~IsTimeOfDay(t))

---------------------------------------------------------------------------
(* The characters of a lexeme, as far as the pattern's character classes    *)
(* tell them apart: digits, ",", ".", ":", " " and "a" for any letter.      *)

FourDigits(n) == TwoDigits(n \div 100) \o TwoDigits(n % 100)

Chars(t) ==
    CASE t.k = "amt"  -> t.s
      [] t.k = "date" -> <<"a", "a", "a", " ">> \o TwoDigits(t.n) \o <<",", " ">>
                         \o FourDigits(t.y)
      [] t.k = "time" -> <<"0", "6", ":", "1", "6", " ", "a", "a">>
      [] t.k = "punct" -> <<"(">>
      [] t.k = "gap"  -> <<" ">>
      [] t.k = "word" /\ t.s /= <<>> -> t.s
      [] OTHER        -> <<"a">>

\* Line 20: the class [A-Za-z0-9 ._@&\-*\n] of the counterparty group.
InNameClass(c) == IsDigit(c) \/ c \in {"a", " ", "."}

NameClass(t) == \A i \in 1..Len(Chars(t)) : InNameClass(Chars(t)[i])

\* Line 21, the last group: ([\d,]+\.\d{2}|\d+).
RECURSIVE RunLen(_, _, _)
RunLen(cs, p, commas) ==
    IF p <= Len(cs) /\ (IsDigit(cs[p]) \/ (commas /\ cs[p] = ","))
    THEN 1 + RunLen(cs, p + 1, commas)
    ELSE 0

\* The first alternative at position p: a run of digits and commas (the
\* longest one, "." being outside the class), a dot and two digits.
GroupedDecimalAt(cs, p) ==
    LET r == RunLen(cs, p, TRUE)
    IN  IF /\ r >= 1
           /\ p + r + 2 <= Len(cs)
           /\ cs[p + r] = "."
           /\ IsDigit(cs[p + r + 1])
           /\ IsDigit(cs[p + r + 2])
        THEN SubSeq(cs, p, p + r + 2)
        ELSE <<>>

\* The second alternative at position p: \d+, greedy.
DigitsAt(cs, p) == SubSeq(cs, p, p + RunLen(cs, p, FALSE) - 1)

AmountAt(cs, p) ==
    IF GroupedDecimalAt(cs, p) /= <<>> THEN GroupedDecimalAt(cs, p) ELSE DigitsAt(cs, p)

\* [\s\S]*? before the group: the first position at which it matches, or 0.
FirstAmountPos(cs) ==
    LET ps == {p \in 1..Len(cs) : AmountAt(cs, p) /= <<>>}
    IN  IF ps = {} THEN 0 ELSE CHOOSE p \in ps : \A r \in ps : p <= r

AmountText(t) == AmountAt(Chars(t), FirstAmountPos(Chars(t)))

HasAmount(t) == FirstAmountPos(Chars(t)) /= 0

\* Line 30: float(match.group(4).replace(",", "")), in paise.
RECURSIVE DigitsValue(_)
DigitsValue(ds) ==
    IF ds = <<>> THEN 0
    ELSE 10 * DigitsValue(SubSeq(ds, 1, Len(ds) - 1)) + DigitVal(ds[Len(ds)])

ParseFloat(m) ==
    LET plain == SelectSeq(m, LAMBDA c : c /= ",")
        dots  == {i \in 1..Len(plain) : plain[i] = "."}
    IN  IF dots = {} THEN 100 * DigitsValue(plain)
        ELSE LET d == CHOOSE i \in dots : TRUE
             IN  100 * DigitsValue(SubSeq(plain, 1, d - 1))
                 + DigitsValue(SubSeq(plain, d + 1, Len(plain)))

---------------------------------------------------------------------------
(* Lines 19-23: the pattern, matched the way re does: leftmost start, and   *)
(* for every lazy quantifier the shortest expansion from which the rest of  *)
(* the pattern still matches.                                               *)

Least(S) == IF S = {} THEN 0 ELSE CHOOSE x \in S : \A z \in S : x <= z

IsDate(t) == t.k = "date"
IsMarker(t) == t.k \in {"paid", "recv"}
IsKind(t) == t.k \in {"debit", "credit"}

\* The first token at or after i that is not white space (Len + 1 if none).
SkipGaps(txt, i) ==
    Least({j \in i..(Len(txt) + 1) : j = Len(txt) + 1 \/ txt[j].k /= "gap"})

\* [\s\S]*?(amount): the first token after i holding an amount.
AmountIndexAfter(txt, i) == Least({j \in (i + 1)..Len(txt) : HasAmount(txt[j])})

\* \s*INR after the kind at k: the index of INR, or 0.
InrIndexAfter(txt, k) ==
    LET i == SkipGaps(txt, k + 1)
    IN  IF i <= Len(txt) /\ txt[i].k = "inr" THEN i ELSE 0

\* [\s\S]*?(Debit|Credit)\s*INR[\s\S]*?(amount) from the look-ahead at t.
KindIndexAfter(txt, t) ==
    Least({k \in (t + 1)..Len(txt) :
             /\ IsKind(txt[k])
             /\ InrIndexAfter(txt, k) /= 0
             /\ AmountIndexAfter(txt, InrIndexAfter(txt, k)) /= 0})

\* \s+(name+?)\s*(?=Transaction ID) after the marker at m: the index of the
\* "Transaction ID" the look-ahead settles on, or 0.  \s+ is greedy, so the
\* name first starts at the first non-blank token q and needs one character
\* at least; only when no such name completes the pattern does \s+ give a
\* blank back, and the name may then be that blank alone.
TidIndexAfter(txt, m) ==
    LET q == SkipGaps(txt, m + 1)
        full == {t \in (q + 1)..Len(txt) :
                   /\ txt[t].k = "tid"
                   /\ \A i \in q..(t - 1) : NameClass(txt[i])
                   /\ KindIndexAfter(txt, t) /= 0}
    IN  IF full /= {} THEN Least(full)
        ELSE IF /\ q > m + 1
                /\ q <= Len(txt)
                /\ txt[q].k = "tid"
                /\ KindIndexAfter(txt, q) /= 0
             THEN q
             ELSE 0

\* (date)[\s\S]*?(?:Paid to|Received from): the marker a match that starts
\* at the date s binds, or 0 when no match starts at s.
MarkerIndexNearestDate(txt, s) ==
    Least({m \in (s + 1)..Len(txt) :
             /\ IsMarker(txt[m])
             /\ TidIndexAfter(txt, m) /= 0
             /\ \A i \in (s + 1)..(m - 1) : ~IsDate(txt[i])})

MarkerIndexAfter(txt, s) ==
    Least({m \in (s + 1)..Len(txt) : IsMarker(txt[m]) /\ TidIndexAfter(txt, m) /= 0})

\* The match object of a match starting at the date s.
MatchAt(txt, s) ==
    LET m == MarkerIndexAfter(txt, s)
        t == TidIndexAfter(txt, m)
        k == KindIndexAfter(txt, t)
        j == AmountIndexAfter(txt, InrIndexAfter(txt, k))
    IN  [start |-> s, marker |-> m, tid |-> t, kind |-> k, stop |-> j,
         g1 |-> txt[s],
         g2 |-> SubSeq(txt, m + 1, t - 1),
         g3 |-> txt[k],
         g4 |-> AmountText(txt[j])]

\* The next match at or after pos: re scans for the leftmost start.
NextStart(txt, pos) ==
    Least({s \in pos..Len(txt) : IsDate(txt[s]) /\ MarkerIndexAfter(txt, s) /= 0})

\* Line 26: pattern.finditer(text); a match resumes the scan where the
\* previous one ended, inside or at the end of the token its amount is in.
RECURSIVE FindIter(_, _)
FindIter(txt, pos) ==
    LET s == NextStart(txt, pos)
    IN  IF s = 0 THEN <<>>
        ELSE <<MatchAt(txt, s)>> \o FindIter(txt, MatchAt(txt, s).stop + 1)

---------------------------------------------------------------------------
(* Lines 27-32: the tuple of one match.                                     *)

\* Line 27: match.group(1).strip(); the date string keeps the three parts.
DateString(t) == [mon |-> t.a, day |-> t.n, year |-> t.y]

\* Line 28: re.sub(r"\s+", " ", match.group(2).strip()): leading and
\* trailing blanks go and every inner run of blanks becomes one space, which
\* leaves the lexemes of the name, one space apart.
CleanName(g2) == SelectSeq(g2, LAMBDA t : t.k /= "gap")

\* Line 29
KindString(t) == IF t.k = "debit" THEN "Debit" ELSE "Credit"

\* Line 31: amount = -amount if ttype == "Debit" else amount
SignedAmountUnsigned(amount, ttype) == amount

SignedAmount(amount, ttype) == IF ttype = "Debit" THEN -amount ELSE amount

Transaction(mt) ==
    [Date |-> DateString(mt.g1),
     Name |-> CleanName(mt.g2),
     Amount |-> SignedAmount(ParseFloat(mt.g4), KindString(mt.g3)),
     Type |-> KindString(mt.g3)]

---------------------------------------------------------------------------
(* Line 40: pd.to_datetime(df["Date"], format="%b %d, %Y").                 *)

MonthAbbr == <<"Jan", "Feb", "Mar", "Apr", "May", "Jun",
               "Jul", "Aug", "Sep", "Oct", "Nov", "Dec">>

\* %b: the number of the month, 0 for an abbreviation that names none.
MonthNumber(mon) == Least({i \in 1..Len(MonthAbbr) : MonthAbbr[i] = mon})

IsLeap(y) == (y % 4 = 0 /\ y % 100 /= 0) \/ y % 400 = 0

DaysInMonth(m, y) ==
    IF m = 2 THEN (IF IsLeap(y) THEN 29 ELSE 28)
    ELSE IF m \in {4, 6, 9, 11} THEN 30 ELSE 31

\* A mutant: the month is looked up, the day is not checked.
DateConformsMonthOnly(ds) == MonthNumber(ds.mon) /= 0

\* Whether strptime accepts the string: a known month and a day of it.
DateConforms(ds) ==
    /\ MonthNumber(ds.mon) /= 0
    /\ ds.day >= 1
    /\ ds.day <= DaysInMonth(MonthNumber(ds.mon), ds.year)

\* The Timestamp of a conforming string, as the number yyyymmdd, which
\* orders Timestamps as pandas does.
ToDatetime(ds) == ds.year * 10000 + MonthNumber(ds.mon) * 100 + ds.day

\* Line 49: date.strftime('%b %d, %Y')
Strftime(ts) ==
    [mon |-> MonthAbbr[(ts \div 100) % 100], day |-> ts % 100, year |-> ts \div 10000]

---------------------------------------------------------------------------
(* Lines 39-44: the DataFrame, and sort_values(["Date", "Order"]).          *)

\* Lines 39, 40, 43: the row of the i-th tuple, with its Order column.
Row(tx, i) ==
    [Date |-> ToDatetime(tx.Date), Name |-> tx.Name, Amount |-> tx.Amount,
     Type |-> tx.Type, Order |-> i - 1]

\* A mutant: rows of one date come out in reverse, as an unstable sort on
\* the date alone may leave them.
KeyLessUnstable(r1, r2) ==
    r1.Date < r2.Date \/ (r1.Date = r2.Date /\ r1.Order > r2.Order)

\* The order of sort_values(["Date", "Order"]): by date, then by Order.
KeyLess(r1, r2) ==
    r1.Date < r2.Date \/ (r1.Date = r2.Date /\ r1.Order < r2.Order)

RemoveAt(rows, i) == SubSeq(rows, 1, i - 1) \o SubSeq(rows, i + 1, Len(rows))

\* A mutant: the frame is left in extraction order.
SortValuesNotSorting(rows) == rows

RECURSIVE SortValues(_)
SortValues(rows) ==
    IF rows = <<>> THEN <<>>
    ELSE LET first == CHOOSE i \in 1..Len(rows) :
                         \A j \in 1..Len(rows) : j = i \/ KeyLess(rows[i], rows[j])
         IN  <<rows[first]>> \o SortValues(RemoveAt(rows, first))

\* .drop(columns=["Order"])
DropOrder(r) == [Date |-> r.Date, Name |-> r.Name, Amount |-> r.Amount, Type |-> r.Type]

DataFrame(txs) ==
    LET rows == [i \in 1..Len(txs) |-> Row(txs[i], i)]
        sorted == SortValues(rows)
    IN  [i \in 1..Len(sorted) |-> DropOrder(sorted[i])]

---------------------------------------------------------------------------
(* Lines 51-52 and 59: the signed-amount string.                            *)

Abs(x) == IF x < 0 THEN -x ELSE x

RECURSIVE DigitsOf(_)
DigitsOf(n) ==
    IF n < 10 THEN <<DigitChars[n + 1]>>
    ELSE DigitsOf(n \div 10) \o <<DigitChars[(n % 10) + 1]>>

ThreeDigits(n) == <<DigitChars[(n \div 100) + 1]>> \o TwoDigits(n % 100)

\* The "," of the format: the integer part in groups of three.
RECURSIVE Grouped(_)
Grouped(n) ==
    IF n < 1000 THEN DigitsOf(n)
    ELSE Grouped(n \div 1000) \o <<",">> \o ThreeDigits(n % 1000)

\* f"{abs(x):,.2f}" of an amount of x paise
FormatAbs(x) == Grouped(Abs(x) \div 100) \o <<".">> \o TwoDigits(Abs(x) % 100)

\* A mutant: zero is shown as a gain.
SignNonNegative(x) == IF x >= 0 THEN "+" ELSE "-"

\* Line 51: sign = "+" if row["Amount"] > 0 else "-"
RenderSign(x) == IF x > 0 THEN "+" ELSE "-"

\* Line 59: '+' if x > 0 else '-'
ExcelSign(x) == IF x > 0 THEN "+" ELSE "-"

\* Line 59: the lambda of the "Signed Amount" column
ExcelSignedAmount(x) == <<ExcelSign(x)>> \o FormatAbs(x)

---------------------------------------------------------------------------
(* Lines 47-53: the rendered lines.  A line is a header (the date string),  *)
(* a transaction line (the name, padded, and the signed amount) or the      *)
(* empty line.                                                              *)

HeaderLine(ds) == [k |-> "header", date |-> ds, name |-> <<>>, signed |-> <<>>]
BlankLine == [k |-> "blank", date |-> [mon |-> "", day |-> 0, year |-> 0],
              name |-> <<>>, signed |-> <<>>]

\* Line 52: f"  {row['Name']:<45} {sign}{abs(row['Amount']):,.2f}"; the
\* indentation and the padding of the name are layout, and are left out.
TransactionLine(row) ==
    [k |-> "txn", date |-> [mon |-> "", day |-> 0, year |-> 0],
     name |-> row.Name, signed |-> <<RenderSign(row.Amount)>> \o FormatAbs(row.Amount)]

\* Line 48: df.groupby("Date") yields the groups by ascending key, each
\* group holding its rows in the order the frame has them.
RECURSIVE Ascending(_)
Ascending(S) ==
    IF S = {} THEN <<>>
    ELSE LET x == CHOOSE x \in S : \A z \in S : x <= z
         IN  <<x>> \o Ascending(S \ {x})

GroupBy(frame) ==
    LET keys == Ascending({frame[i].Date : i \in 1..Len(frame)})
    IN  [g \in 1..Len(keys) |->
           [key |-> keys[g], rows |-> SelectSeq(frame, LAMBDA r : r.Date = keys[g])]]

\* A mutant: the blank line after a group is forgotten.
GroupLinesNoBlank(group) ==
    <<HeaderLine(Strftime(group.key))>>
    \o [i \in 1..Len(group.rows) |-> TransactionLine(group.rows[i])]

\* Lines 49-53: the lines of one group
GroupLines(group) ==
    <<HeaderLine(Strftime(group.key))>>
    \o [i \in 1..Len(group.rows) |-> TransactionLine(group.rows[i])]
    \o <<BlankLine>>

RenderLines(frame) ==
    LET groups == GroupBy(frame)
    IN  Concat([g \in 1..Len(groups) |-> GroupLines(groups[g])])

\* Line 55: "\n".join(output_lines)
RECURSIVE JoinLines(_)
JoinLines(lines) ==
    IF Len(lines) <= 1 THEN lines
    ELSE <<Head(lines), [k |-> "newline", date |-> BlankLine.date,
                         name |-> <<>>, signed |-> <<>>]>> \o JoinLines(Tail(lines))

---------------------------------------------------------------------------
(* Lines 58-90: what each exporter writes.                                  *)

\* Line 59: df["Signed Amount"] = df["Amount"].apply(...)
WithSignedAmount(frame) ==
    [i \in 1..Len(frame) |->
       [Date |-> frame[i].Date, Name |-> frame[i].Name, Amount |-> frame[i].Amount,
        Type |-> frame[i].Type, SignedAmount |-> ExcelSignedAmount(frame[i].Amount)]]

\* Line 60: df[["Date", "Name", "Type", "Signed Amount"]].to_excel(...)
ExcelRows(frame) ==
    [i \in 1..Len(frame) |->
       [Date |-> frame[i].Date, Name |-> frame[i].Name, Type |-> frame[i].Type,
        SignedAmount |-> frame[i].SignedAmount]]

\* line.strip(): empty for the empty line alone
IsBlank(line) == line.k = "blank"

\* Lines 77-78: a Paragraph for a line (its spaces made non-breaking, which
\* changes no character that is kept here), a Spacer for an empty one.
PdfStory(lines) ==
    [i \in 1..Len(lines) |->
       IF IsBlank(lines[i]) THEN [el |-> "Spacer", line |-> BlankLine]
       ELSE [el |-> "Paragraph", line |-> lines[i]]]

\* Lines 84-89: the heading, then a paragraph per line.
WordParagraphs(lines) ==
    <<[el |-> "Heading", line |-> BlankLine]>>
    \o [i \in 1..Len(lines) |->
          IF IsBlank(lines[i]) THEN [el |-> "Paragraph", line |-> BlankLine]
          ELSE [el |-> "Paragraph", line |-> lines[i]]]

---------------------------------------------------------------------------
(* The statements the model reads.  A statement is a sequence of segments;  *)
(* line 12 turns it into text.  A "block" is a well-formed transaction      *)
(* block; the other shapes are what a statement may hold besides.           *)

\* Date tokens that are dates, and date tokens that have the shape only:
\* an impossible day, a month that is none.
RealDates == {DateTok("Jan", 30, 2024), DateTok("Feb", 5, 2024)}
ShapeOnlyDates == {DateTok("Feb", 30, 2024), DateTok("Xyz", 5, 2024)}

\* Amount lexemes, each with the amount it writes, in paise.
Zero == [paise |-> 0, chars |-> <<"0">>]
Grouped1250 == [paise |-> 125000, chars |-> <<"1", ",", "2", "5", "0", ".", "0", "0">>]
Plain500 == [paise |-> 50000, chars |-> <<"5", "0", "0", ".", "0", "0">>]

Kinds == {"Debit", "Credit"}

OtherShapes == {"broken", "noamount", "badamount", "blankname", "noname", "junk"}

Segments ==
    [shape : {"block"}, date : RealDates, kind : Kinds, amount : {Zero, Grouped1250}]
    \cup [shape : {"block"}, date : ShapeOnlyDates, kind : {"Credit"}, amount : {Plain500}]
    \cup [shape : {"stray"}, date : {DateTok("Jan", 30, 2024), DateTok("Xyz", 5, 2024)},
          kind : {"Debit"}, amount : {Zero}]
    \cup [shape : OtherShapes, date : {DateTok("Feb", 5, 2024)}, kind : {"Credit"},
          amount : {Plain500}]

\* The counterparty a block of each kind names.
BlockName(kind) ==
    IF kind = "Debit" THEN <<WordTok("John"), Tok("gap"), WordTok("Doe")>>
    ELSE <<Tok("gap"), WordTok("Amy"), Tok("gap")>>

BlockTokens(seg) ==
    IF seg.kind = "Debit"
    THEN <<seg.date, Tok("time"), Tok("paid")>> \o BlockName(seg.kind)
         \o <<Tok("tid"), CodeTok("T1"), Tok("debit"), Tok("inr"), AmtTok(seg.amount.chars)>>
    ELSE <<seg.date, Tok("recv")>> \o BlockName(seg.kind)
         \o <<Tok("tid"), Tok("credit"), Tok("gap"), Tok("inr"), Tok("time"),
              AmtTok(seg.amount.chars)>>

SegmentTokens(seg) ==
    CASE seg.shape = "block" -> BlockTokens(seg)
      [] seg.shape = "stray" -> <<seg.date>>
      [] seg.shape = "broken" ->
           <<seg.date, Tok("paid"), WordTok("Shop"), Tok("punct"), Tok("tid"),
             Tok("credit"), Tok("inr"), AmtTok(seg.amount.chars)>>
      [] seg.shape = "noamount" ->
           <<seg.date, Tok("recv"), WordTok("Amy"), Tok("tid"), Tok("credit"), Tok("inr")>>
      [] seg.shape = "badamount" ->
           <<seg.date, Tok("recv"), WordTok("Amy"), Tok("tid"), Tok("credit"), Tok("inr"),
             AmtTok(<<"1", ",", "2", "5", "0">>)>>
      [] seg.shape = "blankname" ->
           <<seg.date, Tok("paid"), Tok("gap"), Tok("tid"), Tok("credit"), Tok("inr"),
             AmtTok(seg.amount.chars)>>
      [] seg.shape = "noname" ->
           <<seg.date, Tok("paid"), Tok("tid"), Tok("credit"), Tok("inr"),
             AmtTok(seg.amount.chars)>>
      [] OTHER -> <<WordTok("Page"), Tok("punct")>>

\* Line 12: extract_text(pdf_path)
ExtractedText(statement) ==
    Concat([i \in 1..Len(statement) |-> SegmentTokens(statement[i])])

Statements == UNION {[1..n -> Segments] : n \in 0..MaxBlocks}

---------------------------------------------------------------------------
(* The script, step by step.                                                *)

OutputFiles == <<"xlsx", "txt", "pdf", "docx">>

Init ==
    /\ pdf \in Statements
    /\ text = <<>>
    /\ pc = "start"
    /\ err = "none"
    /\ transactions = <<>>
    /\ matches = <<>>
    /\ df = <<>>
    /\ output_lines = <<>>
    /\ stdout = <<>>
    /\ attempted = <<>>
    /\ files = <<>>

\* Line 12
ExtractText ==
    /\ pc = "start"
    /\ text' = ExtractedText(pdf)
    /\ pc' = "read"
    /\ UNCHANGED <<pdf, err, transactions, matches, df, output_lines, stdout,
                   attempted, files>>

\* Line 16
NormalizeText ==
    /\ pc = "read"
    /\ text' = Normalize(text)
    /\ pc' = "normalized"
    /\ UNCHANGED <<pdf, err, transactions, matches, df, output_lines, stdout,
                   attempted, files>>

\* Lines 25-32
ExtractTransactions ==
    /\ pc = "normalized"
    /\ matches' = FindIter(text, 1)
    /\ transactions' = [i \in 1..Len(matches') |-> Transaction(matches'[i])]
    /\ pc' = "extracted"
    /\ UNCHANGED <<pdf, text, err, df, output_lines, stdout, attempted, files>>

\* A mutant: the empty list is not told apart.
HasTransactionsAlways == TRUE

\* Line 34: the truth value of the list
HasTransactions == transactions /= <<>>

\* Lines 34-36
NoTransactionsExit ==
    /\ pc = "extracted"
    /\ ~HasTransactions
    /\ stdout' = Append(stdout, "No transactions found")
    /\ pc' = "exited"
    /\ UNCHANGED <<pdf, text, err, transactions, matches, df, output_lines,
                   attempted, files>>

AllDatesConform(txs) == \A i \in 1..Len(txs) : DateConforms(txs[i].Date)

\* Lines 39-44
Tabulate ==
    /\ pc = "extracted"
    /\ HasTransactions
    /\ AllDatesConform(transactions)
    /\ df' = DataFrame(transactions)
    /\ pc' = "tabulated"
    /\ UNCHANGED <<pdf, text, err, transactions, matches, output_lines, stdout,
                   attempted, files>>

\* Line 40 raising ValueError, which nothing catches
TabulateRaises ==
    /\ pc = "extracted"
    /\ HasTransactions
    /\ ~AllDatesConform(transactions)
    /\ pc' = "crashed"
    /\ err' = "tabulate"
    /\ UNCHANGED <<pdf, text, transactions, matches, df, output_lines, stdout,
                   attempted, files>>

\* Lines 47-56
Render ==
    /\ pc = "tabulated"
    /\ output_lines' = RenderLines(df)
    /\ stdout' = Append(stdout, "formatted_text")
    /\ pc' = "printed"
    /\ UNCHANGED <<pdf, text, err, transactions, matches, df, attempted, files>>

\* A mutant: the exporter's exception is caught and dropped.
OutcomeSwallowed(step, ok) == [pc |-> step, err |-> "none"]

\* An exporter either completes or raises, and nothing catches what it raises.
Outcome(step, ok) ==
    IF ok THEN [pc |-> step, err |-> "none"] ELSE [pc |-> "crashed", err |-> step]

\* One exporter: it runs after the step `after`, and writes `content` if it
\* completes.
Export(after, step, content) ==
    /\ pc = after
    /\ \E ok \in BOOLEAN :
         /\ pc' = Outcome(step, ok).pc
         /\ err' = Outcome(step, ok).err
         /\ files' = IF ok THEN Append(files, [name |-> step, content |-> content])
                     ELSE files
    /\ attempted' = Append(attempted, step)

\* Lines 59-60
ExportExcel ==
    /\ df' = IF pc = "printed" THEN WithSignedAmount(df) ELSE df
    /\ Export("printed", "xlsx", ExcelRows(df'))
    /\ UNCHANGED <<pdf, text, transactions, matches, output_lines, stdout>>

\* Lines 63-64
ExportTxt ==
    /\ Export("xlsx", "txt", JoinLines(output_lines))
    /\ UNCHANGED <<pdf, text, transactions, matches, df, output_lines, stdout>>

\* Lines 67-79
ExportPdf ==
    /\ Export("txt", "pdf", PdfStory(output_lines))
    /\ UNCHANGED <<pdf, text, transactions, matches, df, output_lines, stdout>>

\* Lines 82-90
ExportWord ==
    /\ Export("pdf", "docx", WordParagraphs(output_lines))
    /\ UNCHANGED <<pdf, text, transactions, matches, df, output_lines, stdout>>

\* Lines 93-97
PrintSummary ==
    /\ pc = "docx"
    /\ stdout' = stdout \o <<"Exported successfully", "Excel", "PDF", "Word", "Text">>
    /\ pc' = "done"
    /\ UNCHANGED <<pdf, text, err, transactions, matches, df, output_lines,
                   attempted, files>>

Next ==
    \/ ExtractText
    \/ NormalizeText
    \/ ExtractTransactions
    \/ NoTransactionsExit
    \/ Tabulate
    \/ TabulateRaises
    \/ Render
    \/ ExportExcel
    \/ ExportTxt
    \/ ExportPdf
    \/ ExportWord
    \/ PrintSummary

Spec == Init /\ [][Next]_vars

---------------------------------------------------------------------------
(* Vocabulary of the properties.                                            *)

Exporters == {OutputFiles[i] : i \in 1..Len(OutputFiles)}

\* The finditer loop has run.
Extracted == pc \notin {"start", "read", "normalized"}

\* Lines 39-44 have run.
Tabulated ==
    \/ pc \in {"tabulated", "printed", "xlsx", "txt", "pdf", "docx", "done"}
    \/ pc = "crashed" /\ err \in Exporters

\* Lines 47-56 have run.
Rendered == Tabulated /\ pc /= "tabulated"

Printed(what) == \E i \in 1..Len(stdout) : stdout[i] = what

Written == {files[i].name : i \in 1..Len(files)}

FileContent(name) == files[CHOOSE i \in 1..Len(files) : files[i].name = name].content

IsPrefix(p, q) == Len(p) <= Len(q) /\ SubSeq(q, 1, Len(p)) = p

\* The transaction lines among the lines an exporter was given.
TxnLines(lines) == SelectSeq(lines, LAMBDA l : l.k = "txn")

\* The same, read back from the paragraphs of the PDF or the Word file.
TxnLinesOf(elements) ==
    TxnLines([i \in 1..Len(elements) |-> elements[i].line])

SameRow(row, tx) ==
    /\ row.Date = ToDatetime(tx.Date)
    /\ row.Name = tx.Name
    /\ row.Amount = tx.Amount
    /\ row.Type = tx.Type

\* A calendar date: a month of the year and one of its days.
IsCalendarDate(ds) ==
    \E m \in 1..12 : MonthAbbr[m] = ds.mon /\ ds.day \in 1..DaysInMonth(m, ds.year)

---------------------------------------------------------------------------
\* C1: the sorted table is a permutation of the extracted transactions, its
\* dates ascend, and transactions of one date keep the order in which they
\* were extracted.
C1_SortIsStablePermutation ==
    Tabulated =>
        /\ Len(df) = Len(transactions)
        /\ \E p \in Permutations(1..Len(df)) :
             /\ \A i \in 1..Len(df) : SameRow(df[i], transactions[p[i]])
             /\ \A i, j \in 1..Len(df) :
                  i < j => /\ df[i].Date <= df[j].Date
                           /\ df[i].Date = df[j].Date => p[i] < p[j]

\* Two different transactions of one date were tabulated.
C1_Witness ==
    /\ pc = "tabulated"
    /\ \E i, j \in 1..Len(df) :
         i < j /\ df[i].Date = df[j].Date /\ df[i].Name /= df[j].Name

\* C2, as claimed: every Debit has a negative amount and every Credit a
\* non-negative one.
C2_DebitStrictlyNegative ==
    \A i \in 1..Len(transactions) :
        /\ transactions[i].Type = "Debit" => transactions[i].Amount < 0
        /\ transactions[i].Type = "Credit" => transactions[i].Amount >= 0

\* C2, amended: a Debit has a non-positive amount, which is negative unless
\* the matched amount is zero; a Credit has a non-negative amount.
C2_SignConsistent ==
    \A i \in 1..Len(transactions) :
        /\ transactions[i].Type = "Debit" =>
             /\ transactions[i].Amount <= 0
             /\ transactions[i].Amount = 0 => ParseFloat(matches[i].g4) = 0
        /\ transactions[i].Type = "Credit" => transactions[i].Amount >= 0

\* A Debit of zero and a Debit of more than zero were extracted.
C2_Witness ==
    /\ \E i \in 1..Len(transactions) :
         transactions[i].Type = "Debit" /\ transactions[i].Amount = 0
    /\ \E i \in 1..Len(transactions) :
         transactions[i].Type = "Debit" /\ transactions[i].Amount < 0

\* C3: when extraction yields no transaction the script prints the warning
\* and stops: no exporter starts, no file is written, and neither the
\* rendered text nor the summary is printed.
C3_ZeroMatchExit ==
    (Extracted /\ transactions = <<>>) =>
        /\ pc \in {"extracted", "exited"}
        /\ pc = "extracted" => ENABLED NoTransactionsExit
        /\ pc = "exited" => stdout = <<"No transactions found">> /\ ~ENABLED Next
        /\ files = <<>>
        /\ attempted = <<>>
        /\ ~Printed("formatted_text")
        /\ ~Printed("Exported successfully")

\* A text that is not empty yielded no match, and the script has exited.
C3_Witness == pc = "exited" /\ text /= <<>>

---------------------------------------------------------------------------
(* C4.  What a well-formed block says: its date, its counterparty with      *)
(* single spaces, its kind, and its amount, taken off by a Debit.           *)

BlockSays(seg) ==
    [Date |-> [mon |-> seg.date.a, day |-> seg.date.n, year |-> seg.date.y],
     Name |-> IF seg.kind = "Debit" THEN <<WordTok("John"), WordTok("Doe")>>
              ELSE <<WordTok("Amy")>>,
     Amount |-> IF seg.kind = "Debit" THEN 0 - seg.amount.paise ELSE seg.amount.paise,
     Type |-> seg.kind]

OnlyBlocks == \A b \in 1..Len(pdf) : pdf[b].shape = "block"

\* C4: a statement of N well-formed blocks yields N transactions, the i-th
\* being what the i-th block says; the sort then orders them by date and,
\* within a date, by block.
C4_RoundTrip ==
    (Extracted /\ OnlyBlocks) =>
        /\ Len(transactions) = Len(pdf)
        /\ \A i \in 1..Len(pdf) : transactions[i] = BlockSays(pdf[i])
        /\ Tabulated =>
             /\ Len(df) = Len(pdf)
             /\ \E p \in Permutations(1..Len(pdf)) :
                  /\ \A i \in 1..Len(pdf) : SameRow(df[i], BlockSays(pdf[p[i]]))
                  /\ \A i, j \in 1..Len(pdf) :
                       i < j => \/ df[i].Date < df[j].Date
                                \/ df[i].Date = df[j].Date /\ p[i] < p[j]

\* Two blocks, the later date first, one of them a Credit (whose amount
\* follows a time of day), were extracted and sorted.
C4_Witness ==
    /\ pc = "tabulated"
    /\ OnlyBlocks
    /\ Len(pdf) = MaxBlocks
    /\ \E b \in 1..Len(pdf) : pdf[b].kind = "Credit" /\ pdf[b].amount.paise > 0
    /\ ToDatetime(BlockSays(pdf[1]).Date) > ToDatetime(BlockSays(pdf[Len(pdf)]).Date)

---------------------------------------------------------------------------
\* C5: when all four exports are done, the spreadsheet rows and the
\* transaction lines given to the text, PDF and Word exporters are as many,
\* and the i-th row has the name and the signed-amount string of the i-th
\* line.
C5_ExportsAgree ==
    pc = "done" =>
        LET rows == FileContent("xlsx")
            agree(lines) ==
                /\ Len(lines) = Len(rows)
                /\ \A i \in 1..Len(rows) :
                     /\ rows[i].Name = lines[i].name
                     /\ rows[i].SignedAmount = lines[i].signed
        IN  /\ Written = Exporters
            /\ agree(TxnLines(FileContent("txt")))
            /\ agree(TxnLinesOf(FileContent("pdf")))
            /\ agree(TxnLinesOf(FileContent("docx")))

\* All exports are done for a statement whose transactions had to be
\* reordered and carry different names.
C5_Witness ==
    /\ pc = "done"
    /\ Len(transactions) >= 2
    /\ ToDatetime(transactions[1].Date) > ToDatetime(transactions[2].Date)
    /\ transactions[1].Name /= transactions[2].Name

---------------------------------------------------------------------------
(* C6.                                                                      *)

DistinctDates == {df[i].Date : i \in 1..Len(df)}

\* The index of the header that governs line i: the last one at or before i.
HeaderOf(i) ==
    CHOOSE h \in 1..i :
        /\ output_lines[h].k = "header"
        /\ \A x \in (h + 1)..i : output_lines[x].k /= "header"

\* The index in output_lines of the n-th transaction line.
TxnIndex(n) ==
    CHOOSE i \in 1..Len(output_lines) :
        /\ output_lines[i].k = "txn"
        /\ Cardinality({x \in 1..i : output_lines[x].k = "txn"}) = n

\* C6: the rendered lines are one block per distinct date, in ascending date
\* order: the date header, the transactions of that date in table order, an
\* empty line.  No date has two headers, and there are N + 2 * D lines.
C6_RendererLayout ==
    Rendered =>
        LET L == output_lines
            n == Len(L)
            headers == {i \in 1..n : L[i].k = "header"}
        IN  /\ n = Len(df) + 2 * Cardinality(DistinctDates)
            /\ Cardinality(headers) = Cardinality(DistinctDates)
            /\ \A g, h \in headers :
                 g < h => ToDatetime(L[g].date) < ToDatetime(L[h].date)
            /\ L[1].k = "header" /\ L[n].k = "blank"
            /\ \A i \in 1..(n - 1) :
                 /\ L[i].k = "header" => L[i + 1].k = "txn"
                 /\ L[i].k = "txn" => L[i + 1].k \in {"txn", "blank"}
                 /\ L[i].k = "blank" => L[i + 1].k = "header"
            /\ Len(TxnLines(L)) = Len(df)
            /\ \A r \in 1..Len(df) :
                 /\ L[TxnIndex(r)].name = df[r].Name
                 /\ L[TxnIndex(r)].signed[1] = (IF df[r].Amount > 0 THEN "+" ELSE "-")
                 /\ SubSeq(L[TxnIndex(r)].signed, 2, Len(L[TxnIndex(r)].signed))
                      = FormatAbs(df[r].Amount)
                 /\ L[HeaderOf(TxnIndex(r))].date = Strftime(df[r].Date)

\* Two dates were rendered, out of a statement that had them in the other
\* order.
C6_Witness ==
    /\ pc = "printed"
    /\ Cardinality(DistinctDates) = 2
    /\ ToDatetime(transactions[1].Date) > ToDatetime(transactions[2].Date)

---------------------------------------------------------------------------
\* C7: the sign of a rendered transaction line and of a spreadsheet Signed
\* Amount is "+" exactly when the amount is above zero and "-" otherwise,
\* and the two are the same for the same transaction.
C7_SignCharacter ==
    /\ Rendered =>
         \A r \in 1..Len(df) :
             LET sign == TxnLines(output_lines)[r].signed[1]
             IN  /\ sign \in {"+", "-"}
                 /\ sign = "+" <=> df[r].Amount > 0
    /\ "xlsx" \in Written =>
         LET rows == FileContent("xlsx")
         IN  \A r \in 1..Len(rows) :
                 /\ rows[r].SignedAmount[1] \in {"+", "-"}
                 /\ rows[r].SignedAmount[1] = "+" <=> df[r].Amount > 0
                 /\ rows[r].SignedAmount[1] = TxnLines(output_lines)[r].signed[1]

\* A Credit of zero is in the spreadsheet with the sign "-", beside an
\* amount above zero.
C7_Witness ==
    /\ "xlsx" \in Written
    /\ \E r \in 1..Len(df) :
         /\ df[r].Type = "Credit" /\ df[r].Amount = 0
         /\ FileContent("xlsx")[r].SignedAmount[1] = "-"
    /\ \E r \in 1..Len(df) : df[r].Amount > 0

---------------------------------------------------------------------------
\* C8: the exporters start in the order spreadsheet, text, PDF, Word, and
\* only once transactions were tabulated; an exporter that fails ends the
\* run there, with the files of the exporters before it and no summary; the
\* summary is printed only with all four files written.
C8_AllOrAbort ==
    /\ IsPrefix(attempted, OutputFiles)
    /\ attempted /= <<>> => Rendered /\ transactions /= <<>>
    /\ [i \in 1..Len(files) |-> files[i].name] = SubSeq(attempted, 1, Len(files))
    /\ (pc = "crashed" /\ err \in Exporters) =>
         /\ attempted[Len(attempted)] = err
         /\ Len(files) = Len(attempted) - 1
         /\ ~Printed("Exported successfully")
         /\ ~ENABLED Next
    /\ pc /= "crashed" => Len(files) = Len(attempted)
    /\ Printed("Exported successfully") => Written = Exporters /\ pc = "done"

\* The PDF exporter failed after the spreadsheet and the text were written.
C8_Witness == pc = "crashed" /\ err = "pdf" /\ Written = {"xlsx", "txt"}

---------------------------------------------------------------------------
\* C9: if a matched record's date is not a calendar date, the run ends at
\* tabulation: the rendered text is not printed, no exporter starts and no
\* file is written, whatever the other records are.
C9_BadDateAborts ==
    (Extracted /\ \E i \in 1..Len(transactions) : ~IsCalendarDate(transactions[i].Date)) =>
        /\ pc \in {"extracted", "crashed"}
        /\ pc = "extracted" => ENABLED TabulateRaises /\ ~ENABLED Tabulate
        /\ pc = "crashed" => err = "tabulate" /\ ~ENABLED Next
        /\ df = <<>>
        /\ ~Printed("formatted_text")
        /\ attempted = <<>>
        /\ files = <<>>

\* The run ended at tabulation over an impossible day, beside a record
\* whose date is one.
C9_Witness ==
    /\ pc = "crashed" /\ err = "tabulate"
    /\ \E i, j \in 1..Len(transactions) :
         /\ IsCalendarDate(transactions[i].Date)
         /\ transactions[j].Date.mon = "Feb" /\ transactions[j].Date.day = 30

---------------------------------------------------------------------------
(* C10.  The grammar can be completed from the date at s: some marker, a    *)
(* name of name characters up to some "Transaction ID", some kind with INR  *)
(* after it and some amount follow, in this order.                          *)

CanComplete(txt, s) ==
    \E m \in (s + 1)..Len(txt) :
        /\ IsMarker(txt[m])
        /\ \E t \in (m + 2)..Len(txt) :
             /\ txt[t].k = "tid"
             /\ \A x \in (m + 1)..(t - 1) : NameClass(txt[x])
             /\ \E k \in (t + 1)..Len(txt) :
                  /\ IsKind(txt[k])
                  /\ \E i \in (k + 1)..Len(txt) :
                       /\ txt[i].k = "inr"
                       /\ \A x \in (k + 1)..(i - 1) : txt[x].k = "gap"
                       /\ \E j \in (i + 1)..Len(txt) : HasAmount(txt[j])

\* Where the scan for the n-th match began.
ScanFrom(n) == IF n = 1 THEN 1 ELSE matches[n - 1].stop + 1

\* C10: the date of each transaction is the earliest date token, at or
\* after the end of the previous match, from which the grammar can be
\* completed; the date tokens between it and its marker give no
\* transaction, and no completable date is left after the last match.
C10_EarliestDateBinds ==
    Extracted =>
        /\ Len(matches) = Len(transactions)
        /\ \A n \in 1..Len(matches) :
             /\ matches[n].start >= ScanFrom(n)
             /\ IsDate(text[matches[n].start])
             /\ transactions[n].Date = DateString(text[matches[n].start])
             /\ CanComplete(text, matches[n].start)
             /\ \A s \in ScanFrom(n)..(matches[n].start - 1) :
                  IsDate(text[s]) => ~CanComplete(text, s)
             /\ IsMarker(text[matches[n].marker])
             /\ \A o \in 1..Len(matches) :
                  ~(matches[n].start < matches[o].start
                    /\ matches[o].start <= matches[n].marker)
        /\ \A s \in ScanFrom(Len(matches) + 1)..Len(text) :
             IsDate(text[s]) => ~CanComplete(text, s)

\* A transaction took a date that is not the one nearest before its marker.
C10_Witness ==
    /\ Extracted
    /\ \E n \in 1..Len(matches) :
         \E s \in (matches[n].start + 1)..(matches[n].marker - 1) :
             /\ IsDate(text[s])
             /\ text[s] /= text[matches[n].start]

====
